---- MODULE Spec2Model ----
(***************************************************************************)
(* World Countries Guessing Game (src/main.py).                            *)
(*                                                                         *)
(* The program is a Tkinter script: module-level code loads the dataset,   *)
(* builds the widgets, draws the first target and enters root.mainloop();  *)
(* every later state change is made by one event handler, run to its end.  *)
(*                                                                         *)
(* Strings are modelled as sequences of one-character strings, so that     *)
(* str.strip() and str.lower() are computed and not assumed.               *)
(***************************************************************************)
EXTENDS Integers, Sequences, FiniteSets, TLC

\* ------------------------------------------------------------------ bounds

\* longest country list (world["NAME"] after dropna) the model loads
MaxCountries == 3
\* longest text the player types into the entry
MaxTextLen == 2
\* number of pointer events (wheel, press, release, motion) followed in one run
MaxViewEvents == 3
\* the same number in the runs that follow the viewport through one short game
MaxZoomEvents == 8

\* ----------------------------------------------------------------- strings

\* characters of the typed text
Chars == {"A", "a", " "}

\* the NAME values the dataset may hold
Names == {<<"A">>, <<"a">>, <<"A", "a">>}

\* Python None; like the empty string it is falsy (draw_map, line 226)
None == <<>>

\* what random.choice raises on an empty list
IndexError == <<"IndexError">>

SeqsUpTo(S, n) == UNION {[1..k -> S] : k \in 0..n}

\* every text entry.get() can return while the entry is enabled
Texts == SeqsUpTo(Chars, MaxTextLen)

\* an arbitrary order of the names, used only to list each dataset once
NameRank(n) == IF n = <<"A">> THEN 1 ELSE IF n = <<"a">> THEN 2 ELSE 3

\* every list world["NAME"].dropna() can be, duplicates included.  The program
\* reads the list only through len() and set(), so one order of each multiset
\* of names stands for all of them.
Datasets ==
    {l \in SeqsUpTo(Names, MaxCountries) :
        \A i \in 1..(Len(l) - 1) : NameRank(l[i]) <= NameRank(l[i + 1])}

IsSpace(c) == c = " "

LowerChar(c) == IF c = "A" THEN "a" ELSE c

\* str.lower()
lower(s) == [i \in DOMAIN s |-> LowerChar(s[i])]

RECURSIVE lstrip(_)
lstrip(s) == IF s # <<>> /\ IsSpace(Head(s)) THEN lstrip(Tail(s)) ELSE s

RECURSIVE rstrip(_)
rstrip(s) ==
    IF s # <<>> /\ IsSpace(s[Len(s)]) THEN rstrip(SubSeq(s, 1, Len(s) - 1)) ELSE s

\* a plausible slip: the text is used as typed
strip_none(s) == s

\* str.strip()
strip(s) == rstrip(lstrip(s))

\* set(list)
set(l) == {l[i] : i \in DOMAIN l}

\* a plausible slip: set.pop() takes some country out, not the target
discard_arbitrary(S, x) == IF S = {} THEN S ELSE S \ {CHOOSE y \in S : TRUE}

\* a plausible slip: the target is left in the pool
discard_nothing(S, x) == S

\* set.discard
discard(S, x) == S \ {x}

\* a plausible slip: an empty list yields None instead of raising
random_choice_or_none(pool) == IF pool = {} THEN {None} ELSE pool

\* random.choice(list(pool)): the possible results
random_choice(pool) == IF pool = {} THEN {IndexError} ELSE pool

\* a plausible slip: the next target is drawn from the whole country list
next_pool_all(all, remaining) == set(all)

\* the collection the next target is drawn from (lines 129, 148)
next_pool(all, remaining) == remaining

\* ------------------------------------------------------------------- state

VARIABLES
    pc,                  \* "load": before line 239; "mainloop"; "crashed"
    countries,           \* line 19
    remaining_countries, \* line 20
    guessed_countries,   \* line 21
    current_country,     \* module global bound at line 239
    map,                 \* what draw_map last painted: gold and limegreen
    title,               \* counter shown by root.title: <<guessed, total>>
    feedback,            \* kind of text shown by feedback_label
    outcome,             \* kind of feedback the last submit_guess set at lines
                         \* 124-143, which end_game may have overwritten since
    entry_state,         \* state of the entry widget
    button_state,        \* state of submit_button
    xlim, ylim,          \* ax.get_xlim(), ax.get_ylim()
    drag_data,           \* _drag_data, line 291
    button1_down,        \* mouse button 1 is held over the canvas
    rounds,              \* number of submit_guess runs made with a non-empty pool
    late_call,           \* a submit_guess has run with an empty pool
    view_events,         \* number of pointer events handled so far
    shown                \* the targets of those rounds

vars == <<pc, countries, remaining_countries, guessed_countries, current_country,
          map, title, feedback, outcome, entry_state, button_state, xlim, ylim,
          drag_data, button1_down, rounds, late_call, view_events, shown>>

view_vars == <<xlim, ylim, drag_data, button1_down, view_events>>

session_vars == <<countries, remaining_countries, guessed_countries, current_country,
                  map, title, feedback, outcome, entry_state, button_state, rounds,
                  late_call,
                  shown>>

\* the session without the painted map
game_vars == <<countries, remaining_countries, guessed_countries, current_country,
               title, feedback, outcome, entry_state, button_state, rounds,
               late_call, shown>>

\* ---------------------------------------------------------------- viewport

\* world.total_bounds (line 25), in units that keep every bound the handlers
\* compute an integer: 0.8^4 of each range, its half and its quarter are whole
minx == 0
maxx == 30000
miny == 0
maxy == 15000

DEFAULT_XLIM == <<minx, maxx>>
DEFAULT_YLIM == <<miny, maxy>>

\* width and height of the axes box in cursor steps
AXES_W == 4
AXES_H == 4

\* cursor positions of the pointer events: inside the axes box, and beyond its
\* edges (the canvas is larger than the box when the window is not 2:1)
Cursors == {<<1, 2>>, <<5, -1>>}

\* event.delta of a wheel event (0 for <Button-4> and <Button-5>)
Deltas == {-120, 0, 120}

\* ax.transData.inverted().transform under the limits xl, yl
inv_transform(xl, yl, px, py) ==
    <<xl[1] + (px * (xl[2] - xl[1])) \div AXES_W,
      yl[1] + (py * (yl[2] - yl[1])) \div AXES_H>>

\* a plausible slip: the scaled interval is used as computed
zoom_clamp_none(lim, default) == lim

\* lines 395-400 and 401-406: shift an interval back inside the default one
zoom_clamp(lim, default) ==
    LET a == IF lim[1] < default[1]
             THEN <<default[1], lim[2] + (default[1] - lim[1])>>
             ELSE lim
    IN  IF a[2] > default[2]
        THEN <<a[1] - (a[2] - default[2]), default[2]>>
        ELSE a

RECURSIVE gcd(_, _)
gcd(a, b) == IF b = 0 THEN a ELSE gcd(b, a % b)

\* a plausible slip: zoom scales the horizontal range only
zoom_x_only(xl, yl, num, den, center) ==
    LET x_range     == xl[2] - xl[1]
        new_x_range == (x_range * num) \div den
    IN  IF 3 * x_range * num < (DEFAULT_XLIM[2] - DEFAULT_XLIM[1]) * den
        THEN <<xl, yl>>
        ELSE IF x_range * num >= (DEFAULT_XLIM[2] - DEFAULT_XLIM[1]) * den
             THEN <<DEFAULT_XLIM, DEFAULT_YLIM>>
        ELSE <<zoom_clamp(<<center[1] - new_x_range \div 2,
                            center[1] + new_x_range \div 2>>, DEFAULT_XLIM),
               yl>>

\* a plausible slip: the test of line 384 is made on the current range, so a
\* zoom is refused only once the view is already narrower than a third
zoom_rejects_late(xl, yl, num, den, center) ==
    LET default_x_range == DEFAULT_XLIM[2] - DEFAULT_XLIM[1]
        default_y_range == DEFAULT_YLIM[2] - DEFAULT_YLIM[1]
        x_range         == xl[2] - xl[1]
        y_range         == yl[2] - yl[1]
        new_x_range     == (x_range * num) \div den
        new_y_range     == (y_range * num) \div den
    IN  IF 3 * x_range < default_x_range THEN <<xl, yl>>
        ELSE IF x_range * num >= default_x_range * den
             THEN <<DEFAULT_XLIM, DEFAULT_YLIM>>
        ELSE <<zoom_clamp(<<center[1] - new_x_range \div 2,
                            center[1] + new_x_range \div 2>>, DEFAULT_XLIM),
               zoom_clamp(<<center[2] - new_y_range \div 2,
                            center[2] + new_y_range \div 2>>, DEFAULT_YLIM)>>

\* a plausible slip: the test of line 387 is strict, so a zoom back to the
\* full width is scaled and clamped instead of snapped, and one beyond it too
zoom_snaps_never(xl, yl, num, den, center) ==
    LET default_x_range == DEFAULT_XLIM[2] - DEFAULT_XLIM[1]
        default_y_range == DEFAULT_YLIM[2] - DEFAULT_YLIM[1]
        x_range         == xl[2] - xl[1]
        y_range         == yl[2] - yl[1]
        new_x_range     == (x_range * num) \div den
        new_y_range     == (y_range * num) \div den
    IN  IF 3 * x_range * num < default_x_range * den THEN <<xl, yl>>
        ELSE <<zoom_clamp(<<center[1] - new_x_range \div 2,
                            center[1] + new_x_range \div 2>>, DEFAULT_XLIM),
               zoom_clamp(<<center[2] - new_y_range \div 2,
                            center[2] + new_y_range \div 2>>, DEFAULT_YLIM)>>

\* lines 364-409: the limits zoom sets; factor is num/den.  The aspect
\* default_y_range / default_x_range is kept as the fraction ay/ax in lowest
\* terms, and every comparison of line 384 and 387 is cross-multiplied.
zoom(xl, yl, num, den, center) ==
    LET default_x_range == DEFAULT_XLIM[2] - DEFAULT_XLIM[1]
        default_y_range == DEFAULT_YLIM[2] - DEFAULT_YLIM[1]
        ay              == default_y_range \div gcd(default_y_range, default_x_range)
        ax              == default_x_range \div gcd(default_y_range, default_x_range)
        x_range         == xl[2] - xl[1]
        new_x_range     == (x_range * num) \div den
        new_y_range     == (x_range * num * ay) \div (den * ax)
        too_small       == \/ 3 * x_range * num < default_x_range * den
                           \/ 3 * x_range * num * ay < default_y_range * den * ax
        too_large       == \/ x_range * num >= default_x_range * den
                           \/ x_range * num * ay >= default_y_range * den * ax
    IN  IF too_small THEN <<xl, yl>>
        ELSE IF too_large THEN <<DEFAULT_XLIM, DEFAULT_YLIM>>
        ELSE <<zoom_clamp(<<center[1] - new_x_range \div 2,
                            center[1] + new_x_range \div 2>>, DEFAULT_XLIM),
               zoom_clamp(<<center[2] - new_y_range \div 2,
                            center[2] + new_y_range \div 2>>, DEFAULT_YLIM)>>

\* lines 340-343 and 344-347: clamp a panned interval to the default one
pan_clamp(lim, default) ==
    LET range == lim[2] - lim[1]
        a     == IF lim[1] < default[1]
                 THEN <<default[1], default[1] + range>>
                 ELSE lim
    IN  IF a[2] > default[2]
        THEN <<default[2] - range, default[2]>>
        ELSE a

\* lines 321-347: the limits a drag motion to (px, py) sets
pan(d, xl, yl, px, py) ==
    LET p0        == inv_transform(xl, yl, d.x, d.y)
        p1        == inv_transform(xl, yl, px, py)
        delta_x   == p0[1] - p1[1]
        delta_y   == p1[2] - p0[2]
        new_xlim  == <<d.xlim[1] + delta_x, d.xlim[2] + delta_x>>
        new_ylim  == <<d.ylim[1] + delta_y, d.ylim[2] + delta_y>>
        x_range   == new_xlim[2] - new_xlim[1]
        y_range   == new_ylim[2] - new_ylim[1]
        default_x == DEFAULT_XLIM[2] - DEFAULT_XLIM[1]
        default_y == DEFAULT_YLIM[2] - DEFAULT_YLIM[1]
        center_x  == (DEFAULT_XLIM[1] + DEFAULT_XLIM[2]) \div 2
        center_y  == (DEFAULT_YLIM[1] + DEFAULT_YLIM[2]) \div 2
    IN  IF 3 * x_range = default_x /\ 3 * y_range = default_y
        THEN <<<<center_x - default_x \div 6, center_x + default_x \div 6>>,
               <<center_y - default_y \div 6, center_y + default_y \div 6>>>>
        ELSE <<pan_clamp(new_xlim, DEFAULT_XLIM), pan_clamp(new_ylim, DEFAULT_YLIM)>>

\* a plausible slip: the handler repaints through draw_map(), which takes the
\* highlight of the current target off the map
canvas_draw_via_draw_map(m) == [gold |-> None, green |-> m.green]

\* canvas.draw() (lines 354 and 413): renders the patches that are on the
\* axes; what draw_map painted stays as it is
canvas_draw(m) == m

\* a plausible slip: the view is left as the player set it
reset_map_zoom_keeps_view(xl, yl) == <<xl, yl>>

\* lines 254-260: reset_map_zoom, the limits it sets whatever the view was
reset_map_zoom(xl, yl) == <<DEFAULT_XLIM, DEFAULT_YLIM>>

\* ----------------------------------------------------------------- session

\* a plausible slip: the total is taken from the pool, not from the list
update_counter_of_pool(guessed) ==
    <<Cardinality(guessed), Cardinality(remaining_countries)>>

\* update_counter: the pair shown in the window title
update_counter(guessed) == <<Cardinality(guessed), Len(countries)>>

\* draw_map: the highlights painted and the counter refreshed
draw_map(cur, guessed) ==
    [gold  |-> IF cur # <<>> THEN cur ELSE None,
     green |-> guessed,
     title |-> update_counter(guessed)]

\* a plausible slip: the entry stays usable after the game is over
end_game_entry_left_enabled(guessed) ==
    [map      |-> draw_map(None, guessed),
     feedback |-> "gameover",
     button   |-> "disabled",
     entry    |-> "normal",
     title    |-> update_counter(guessed)]

\* end_game: widgets after the game is over
end_game(guessed) ==
    [map      |-> draw_map(None, guessed),
     feedback |-> "gameover",
     button   |-> "disabled",
     entry    |-> "disabled",
     title    |-> update_counter(guessed)]

\* a plausible slip: the comparison is case-sensitive
is_match_case_sensitive(guess, target) == guess = target

\* line 135: guess.lower() == current_country.lower()
is_match(guess, target) == lower(guess) = lower(target)

\* the feedback shown by lines 123-143 for a stripped guess
classify(guess, target) ==
    IF guess = <<>> THEN "skipped"
    ELSE IF is_match(guess, target) THEN "correct"
    ELSE "wrong"

\* a plausible slip: the add runs outside the if, for every guess that is
\* not a skip
guessed_after_any_guess(kind, guessed, target) ==
    IF kind # "skipped" THEN guessed \cup {target} ELSE guessed

\* lines 135-136: Guessed after a guess of that kind
guessed_after(kind, guessed, target) ==
    IF kind = "correct" THEN guessed \cup {target} ELSE guessed

\* what the entry can hold when a handler reads it: a disabled entry accepts
\* no typing, and line 121 emptied it before line 250 disabled it
entry_get == IF entry_state = "normal" THEN Texts ELSE {<<>>}

Init ==
    /\ pc = "load"
    /\ countries \in Datasets
    /\ remaining_countries = set(countries)
    /\ guessed_countries = {}
    /\ current_country = None
    /\ map = [gold |-> None, green |-> {}]
    /\ title = None
    /\ feedback = "prompt"
    /\ outcome = None
    /\ entry_state = "normal"
    /\ button_state = "normal"
    /\ xlim = <<minx, maxx>>
    /\ ylim = <<miny, maxy>>
    /\ drag_data = [x |-> None, y |-> None, xlim |-> None, ylim |-> None,
                    dragging |-> FALSE]
    /\ button1_down = FALSE
    /\ view_events = 0
    /\ rounds = 0
    /\ late_call = FALSE
    /\ shown = {}

\* lines 239-240: pick the first random country and draw it.  On an empty
\* list random.choice raises and the script ends before root.mainloop (an
\* empty map fails no later: its bounds are NaN for ax.set_xlim at line 68).
pick_first_country ==
    /\ pc = "load"
    /\ \E c \in random_choice(remaining_countries) :
         IF c = IndexError
         THEN /\ pc' = "crashed"
              /\ UNCHANGED <<session_vars, view_vars>>
         ELSE /\ pc' = "mainloop"
              /\ current_country' = c
              /\ map' = [gold  |-> draw_map(c, guessed_countries).gold,
                         green |-> draw_map(c, guessed_countries).green]
              /\ title' = draw_map(c, guessed_countries).title
              /\ UNCHANGED <<countries, remaining_countries, guessed_countries,
                             feedback, outcome, entry_state, button_state,
                             view_vars, rounds, late_call, shown>>

\* lines 118-152: submit_guess, the command of submit_button and the <Return>
\* binding of the entry.  end_game disables both widgets, which stops the
\* button's command, but a binding made with bind() still runs on a disabled
\* widget that holds the focus: the handler can run with an empty pool, and
\* then reads the empty text of the disabled entry.
submit_guess(text) ==
    /\ pc = "mainloop"
    /\ text \in entry_get
    /\ LET guess     == strip(text)
           kind      == classify(guess, current_country)
           guessed1  == guessed_after(kind, guessed_countries, current_country)
           remaining == discard(remaining_countries, current_country)
       IN  /\ outcome' = kind
           /\ guessed_countries' = guessed1
           /\ remaining_countries' = remaining
           \* line 122
           /\ xlim' = reset_map_zoom(xlim, ylim)[1]
           /\ ylim' = reset_map_zoom(xlim, ylim)[2]
           /\ IF remaining # {}
              THEN \E c \in random_choice(next_pool(countries, remaining)) :
                     /\ current_country' = c
                     /\ map' = [gold  |-> draw_map(c, guessed1).gold,
                                green |-> draw_map(c, guessed1).green]
                     \* line 235, and line 152 when the guess is no skip
                     /\ title' = IF kind = "skipped"
                                 THEN draw_map(c, guessed1).title
                                 ELSE update_counter(guessed1)
                     /\ feedback' = kind
                     /\ UNCHANGED <<entry_state, button_state>>
              ELSE /\ current_country' = current_country
                   /\ map' = [gold  |-> end_game(guessed1).map.gold,
                              green |-> end_game(guessed1).map.green]
                   \* line 251, and line 152 when the guess is no skip
                   /\ title' = IF kind = "skipped"
                               THEN end_game(guessed1).title
                               ELSE update_counter(guessed1)
                   /\ feedback' = end_game(guessed1).feedback
                   /\ entry_state' = end_game(guessed1).entry
                   /\ button_state' = end_game(guessed1).button
    /\ IF remaining_countries # {}
       THEN /\ rounds' = rounds + 1
            /\ shown' = shown \cup {current_country}
            /\ UNCHANGED late_call
       ELSE /\ late_call' = TRUE
            /\ UNCHANGED <<rounds, shown>>
    /\ UNCHANGED <<pc, countries, drag_data, button1_down, view_events>>

\* lines 264-282: wheel event over the map canvas (elsewhere the handler does
\* nothing).  A Tk event always has a delta, so the factor is 0.8 for a
\* positive delta and 1.25 otherwise.
on_mouse_wheel(px, py, delta) ==
    /\ pc = "mainloop"
    /\ view_events' = view_events + 1
    /\ LET center == inv_transform(xlim, ylim, px, py)
           new    == IF delta > 0 THEN zoom(xlim, ylim, 4, 5, center)
                                  ELSE zoom(xlim, ylim, 5, 4, center)
       IN  /\ xlim' = new[1]
           /\ ylim' = new[2]
    /\ map' = canvas_draw(map)
    /\ UNCHANGED <<pc, game_vars, drag_data, button1_down>>

\* lines 294-305: <ButtonPress-1> on the canvas; the drag starts only when
\* the view is not the default one
on_mouse_press(px, py) ==
    /\ pc = "mainloop"
    /\ view_events' = view_events + 1
    /\ ~button1_down
    /\ button1_down' = TRUE
    /\ IF xlim # DEFAULT_XLIM \/ ylim # DEFAULT_YLIM
       THEN drag_data' = [x |-> px, y |-> py, xlim |-> xlim, ylim |-> ylim,
                          dragging |-> TRUE]
       ELSE UNCHANGED drag_data
    /\ UNCHANGED <<pc, session_vars, xlim, ylim>>

\* lines 308-309: <ButtonRelease-1>
on_mouse_release ==
    /\ pc = "mainloop"
    /\ view_events' = view_events + 1
    /\ button1_down
    /\ button1_down' = FALSE
    /\ drag_data' = [drag_data EXCEPT !.dragging = FALSE]
    /\ UNCHANGED <<pc, session_vars, xlim, ylim>>

\* lines 312-354: <B1-Motion>, delivered while button 1 is held
on_mouse_motion(px, py) ==
    /\ pc = "mainloop"
    /\ view_events' = view_events + 1
    /\ button1_down
    /\ IF drag_data.dragging
       THEN /\ xlim' = pan(drag_data, xlim, ylim, px, py)[1]
            /\ ylim' = pan(drag_data, xlim, ylim, px, py)[2]
            /\ map' = canvas_draw(map)
       ELSE UNCHANGED <<xlim, ylim, map>>
    /\ UNCHANGED <<pc, game_vars, drag_data, button1_down>>

\* every handler the main loop can run; the pointer events are followed up to
\* MaxViewEvents of them
Next ==
    \/ pick_first_country
    \/ \E text \in Texts : submit_guess(text)
    \/ /\ view_events < MaxViewEvents
       /\ \E p \in Cursors, delta \in Deltas : on_mouse_wheel(p[1], p[2], delta)
    \/ /\ view_events < MaxViewEvents
       /\ \E p \in Cursors : on_mouse_press(p[1], p[2])
    \/ /\ view_events < MaxViewEvents
       /\ on_mouse_release
    \/ /\ view_events < MaxViewEvents
       /\ \E p \in Cursors : on_mouse_motion(p[1], p[2])

Spec == Init /\ [][Next]_vars

\* the session alone: the program when no pointer event reaches the canvas
NextSession ==
    \/ pick_first_country
    \/ \E text \in Texts : submit_guess(text)

SpecSession == Init /\ [][NextSession]_vars

\* the viewport followed further, over a game of one country
InitView ==
    /\ Init
    /\ countries = <<<<"A", "a">>>>

NextView ==
    \/ pick_first_country
    \/ \E text \in Texts : submit_guess(text)
    \/ /\ view_events < MaxZoomEvents
       /\ \E p \in Cursors, delta \in Deltas : on_mouse_wheel(p[1], p[2], delta)
    \/ /\ view_events < MaxZoomEvents
       /\ \E p \in Cursors : on_mouse_press(p[1], p[2])
    \/ /\ view_events < MaxZoomEvents
       /\ on_mouse_release
    \/ /\ view_events < MaxZoomEvents
       /\ \E p \in Cursors : on_mouse_motion(p[1], p[2])

SpecView == InitView /\ [][NextView]_vars

\* widths of the views the drag handlers are applied to: one zoom step in, and
\* the narrowest width line 330 allows
PanWidths == {(4 * (maxx - minx)) \div 5, (maxx - minx) \div 3}

\* views of those widths and of the default aspect, against the lower and
\* upper edges and in the middle
PanViews ==
    UNION {LET h == (w * (maxy - miny)) \div (maxx - minx)
           IN  {<<<<x, x + w>>, <<y, y + h>>>> :
                   x \in {minx, (minx + maxx - w) \div 2, maxx - w},
                   y \in {miny, (miny + maxy - h) \div 2, maxy - h}} :
           w \in PanWidths}

\* on_mouse_press, on_mouse_motion and on_mouse_release as functions of the
\* view they find: a game of one country has started and the axes show any
\* view of PanViews.  The view of a third of the default width is the one
\* lines 330-337 are written for; the wheel handler stops at 0.8^4 of the
\* default width and does not lead to it.
InitPan ==
    /\ pc = "mainloop"
    /\ countries = <<<<"A", "a">>>>
    /\ remaining_countries = set(countries)
    /\ guessed_countries = {}
    /\ current_country = countries[1]
    /\ map = [gold  |-> draw_map(current_country, guessed_countries).gold,
              green |-> draw_map(current_country, guessed_countries).green]
    /\ title = draw_map(current_country, guessed_countries).title
    /\ feedback = "prompt"
    /\ outcome = None
    /\ entry_state = "normal"
    /\ button_state = "normal"
    /\ \E v \in PanViews :
          /\ xlim = v[1]
          /\ ylim = v[2]
    /\ drag_data = [x |-> None, y |-> None, xlim |-> None, ylim |-> None,
                    dragging |-> FALSE]
    /\ button1_down = FALSE
    /\ view_events = 0
    /\ rounds = 0
    /\ late_call = FALSE
    /\ shown = {}

NextPan ==
    \/ /\ view_events < MaxViewEvents
       /\ \E p \in Cursors : on_mouse_press(p[1], p[2])
    \/ /\ view_events < MaxViewEvents
       /\ on_mouse_release
    \/ /\ view_events < MaxViewEvents
       /\ \E p \in Cursors : on_mouse_motion(p[1], p[2])

SpecPan == InitPan /\ [][NextPan]_vars

\* ------------------------------------------------------------------ claims

\* the two states of the session state machine
Active == pc = "mainloop" /\ remaining_countries # {}
Terminal == pc = "mainloop" /\ remaining_countries = {}

\* a step of submit_guess taken with a non-empty pool: one round
RoundStep == rounds' = rounds + 1

\* the text is empty or holds only whitespace
IsBlank(text) == \A i \in DOMAIN text : text[i] = " "

\* every text with its surrounding blanks removed, found by search and not
\* by strip
TrimTable ==
    [text \in Texts |->
        CHOOSE t \in Texts :
            /\ \E i, j \in 0..Len(text) :
                  /\ i + Len(t) + j = Len(text)
                  /\ \A k \in 1..i : text[k] = " "
                  /\ \A k \in 1..j : text[Len(text) + 1 - k] = " "
                  /\ \A k \in 1..Len(t) : t[k] = text[i + k]
            /\ (t # <<>> => t[1] # " " /\ t[Len(t)] # " ")]

Trimmed(text) == TrimTable[text]

\* two strings are equal when letter case is ignored
SameIgnoringCase(s, t) ==
    /\ Len(s) = Len(t)
    /\ \A i \in 1..Len(s) : s[i] = t[i] \/ {s[i], t[i]} = {"A", "a"}

\* C1: in the Active state every submit_guess, whatever the text, removes
\* exactly the current target from the pool, so the pool shrinks by one.
C1_PoolShrinksByTarget ==
    [][(Active /\ RoundStep) =>
          /\ current_country \in remaining_countries
          /\ remaining_countries' = remaining_countries \ {current_country}
          /\ Cardinality(remaining_countries') = Cardinality(remaining_countries) - 1
      ]_vars

\* two rounds have emptied a pool of two countries
C1_Witness ==
    /\ rounds = 2
    /\ Cardinality(set(countries)) = 2
    /\ remaining_countries = {}

\* C2: Guessed only grows, and only by the current target of a submission
\* classified Correct; an Incorrect or Skipped submission and every other
\* event leave it unchanged; it stays within the original country set.
C2_GuessedGrowsOnlyOnCorrect ==
    [][/\ guessed_countries \subseteq guessed_countries'
       /\ guessed_countries' \subseteq set(countries')
       /\ ~RoundStep => guessed_countries' = guessed_countries
       /\ RoundStep =>
             guessed_countries' =
                 IF outcome' = "correct"
                 THEN guessed_countries \cup {current_country}
                 ELSE guessed_countries
      ]_vars

\* every country of a two-country session has been guessed
C2_Witness ==
    /\ Cardinality(guessed_countries) = 2
    /\ guessed_countries = set(countries)

\* C3: after every completed handler the pool and Guessed are disjoint.
C3_PoolGuessedDisjoint == remaining_countries \cap guessed_countries = {}

\* a correct guess was made, the pool is not empty and the view was moved
C3_Witness ==
    /\ guessed_countries # {}
    /\ remaining_countries # {}
    /\ view_events > 0
    /\ xlim # DEFAULT_XLIM

\* C4, as claimed: a non-empty text is Correct (its target joins Guessed)
\* exactly when the text equals the stored name with letter case ignored.
C4_CorrectIffTextEqualsName ==
    [][RoundStep =>
          \A text \in Texts :
              (text # <<>> /\ submit_guess(text)) =>
                  (current_country \in guessed_countries'
                      <=> SameIgnoringCase(text, current_country))
      ]_vars

\* what the amended C4 says of a submit_guess that has read text
C4_Post(text) ==
    IF SameIgnoringCase(Trimmed(text), current_country)
    THEN /\ guessed_countries' = guessed_countries \cup {current_country}
         /\ outcome' = "correct"
         /\ remaining_countries' # {} => feedback' = "correct"
    ELSE /\ guessed_countries' = guessed_countries
         /\ outcome' = "wrong"
         /\ remaining_countries' # {} => feedback' = "wrong"

\* C4, amended: a text that is not blank is Correct (its target joins
\* Guessed) exactly when the text without its surrounding whitespace equals
\* the stored name with letter case ignored; otherwise it is Incorrect and
\* Guessed is unchanged.  The feedback says so while the pool is not empty.
C4_CorrectIffTrimmedTextEqualsName ==
    Active =>
        \A text \in Texts :
            ~IsBlank(text) =>
                /\ ENABLED submit_guess(text)
                /\ ~ENABLED (submit_guess(text) /\ ~C4_Post(text))

\* a name of two letters was guessed and a later guess was wrong
C4_Witness ==
    /\ <<"A", "a">> \in guessed_countries
    /\ outcome = "wrong"

\* what C5 says of a submit_guess that has read a blank text
C5_Post ==
    /\ guessed_countries' = guessed_countries
    /\ remaining_countries' = remaining_countries \ {current_country}
    /\ current_country \notin remaining_countries'
    /\ outcome' = "skipped"
    /\ IF remaining_countries' # {}
       THEN /\ feedback' = "skipped"
            /\ current_country' \in remaining_countries'
            /\ map'.gold = current_country'
            /\ entry_state' = "normal"
       ELSE /\ feedback' = "gameover"
            /\ map'.gold = None
            /\ entry_state' = "disabled"
            /\ button_state' = "disabled"

\* C5: a blank text in the Active state is Skipped: Guessed is unchanged, the
\* current target leaves the pool, and then a target is drawn from the rest
\* or the game ends, as for any other guess.
C5_BlankTextSkips ==
    Active =>
        \A text \in Texts :
            IsBlank(text) =>
                /\ ENABLED submit_guess(text)
                /\ ~ENABLED (submit_guess(text) /\ ~C5_Post)

\* a target was skipped and the next one is on the map
C5_Witness ==
    /\ feedback = "skipped"
    /\ rounds = 1
    /\ guessed_countries = {}
    /\ map.gold = current_country

\* C6: no country is the current target in two rounds: the target of the
\* round in progress was the target of no earlier round.
C6_NoTargetTwice == Active => current_country \notin shown

\* the third round of a session is in progress
C6_Witness ==
    /\ Active
    /\ Cardinality(shown) = 2

\* the session holds as many countries as the counter reports: no name
\* occurs twice in the dataset
TotalIsCountryCount == Len(countries) = Cardinality(set(countries))

\* C7, as claimed: a session of N countries, N the total the counter reports,
\* has an empty pool exactly when N submit_guess rounds have run, and a
\* submission ends the game (end_game) exactly when it removes the last
\* country from the pool.
C7_GameOverIffLastCountryRemoved ==
    /\ []((pc = "mainloop" /\ TotalIsCountryCount) =>
             (remaining_countries = {} <=> rounds = Len(countries)))
    /\ [][(TotalIsCountryCount /\ \E text \in Texts : submit_guess(text)) =>
             (feedback' = "gameover"
                 <=> (remaining_countries # {} /\ remaining_countries' = {}))
         ]_vars

\* C7, amended: with N the number of distinct country names (the reported
\* total when no name occurs twice), the pool is empty exactly when N rounds
\* have run, and a submission made in the Active state ends the game exactly
\* when it removes the last country.
C7_TerminalAfterDistinctNames ==
    [][pc' = "mainloop" =>
          /\ remaining_countries' = {} <=> rounds' = Cardinality(set(countries'))
          /\ rounds' <= Cardinality(set(countries'))
          /\ TotalIsCountryCount' => title'[2] = Cardinality(set(countries'))
          /\ (Active /\ RoundStep) =>
                /\ (feedback' = "gameover" /\ entry_state' = "disabled"
                        /\ button_state' = "disabled")
                     <=> remaining_countries' = {}
                /\ feedback' = "gameover" <=> Terminal'
      ]_vars

\* three rounds have ended a session of three distinct countries
C7_Witness ==
    /\ Terminal
    /\ rounds = 3
    /\ Cardinality(set(countries)) = 3
    /\ feedback = "gameover"

\* C8, as claimed: whenever the pool is empty the current target is absent.
C8_NoTargetWhenPoolEmpty == Terminal => current_country = None

\* C9: Terminal has no way out: whatever runs there, a submit_guess included,
\* leaves the pool empty, Guessed and the counter shown unchanged, and the
\* session Terminal.
C9_TerminalIsFinal ==
    [][Terminal =>
          /\ Terminal'
          /\ remaining_countries' = {}
          /\ guessed_countries' = guessed_countries
          /\ title' = title
          /\ feedback' = "gameover"
          /\ entry_state' = "disabled" /\ button_state' = "disabled"
      ]_vars

\* a submit_guess has run after the game was over, the last target unguessed
C9_Witness ==
    /\ Terminal
    /\ late_call
    /\ current_country \notin guessed_countries

\* C10: with an empty country set the start fails: no target is bound or
\* drawn, the main loop is never entered and no round is played.
C10_EmptyDatasetFailsAtStart ==
    countries = <<>> =>
        /\ pc \in {"load", "crashed"}
        /\ current_country = None
        /\ map.gold = None
        /\ ~Active
        /\ rounds = 0
        /\ ~ENABLED (\E text \in Texts : submit_guess(text))

\* the first draw has raised on an empty list
C10_Witness ==
    /\ countries = <<>>
    /\ pc = "crashed"

\* width of an interval
Width(lim) == lim[2] - lim[1]

\* the view xl, yl lies inside the Default Viewport
Contained(xl, yl) ==
    /\ DEFAULT_XLIM[1] <= xl[1] /\ xl[1] < xl[2] /\ xl[2] <= DEFAULT_XLIM[2]
    /\ DEFAULT_YLIM[1] <= yl[1] /\ yl[1] < yl[2] /\ yl[2] <= DEFAULT_YLIM[2]

AtDefault == xlim = DEFAULT_XLIM /\ ylim = DEFAULT_YLIM

\* a step of on_mouse_wheel that asks for the factor num/den (a step that
\* moves button 1 is a press or a release)
WheelStep(num, den) ==
    /\ button1_down' = button1_down
    /\ \E p \in Cursors, delta \in Deltas :
          /\ (delta > 0) <=> (num < den)
          /\ on_mouse_wheel(p[1], p[2], delta)

\* C11: whatever wheel, press, motion, release and submit_guess events have
\* run, and wherever the cursor was, the visible x-range and y-range lie
\* inside the Default Viewport.
C11_ViewportWithinDefault == Contained(xlim, ylim)

\* a zoom centred beyond the right and lower edges was shifted against them,
\* and a drag begun there has since moved the view away from the right edge
C11_Witness ==
    /\ drag_data.dragging
    /\ drag_data.xlim[2] = maxx
    /\ drag_data.ylim[1] = miny
    /\ Width(drag_data.xlim) < Width(DEFAULT_XLIM)
    /\ xlim[2] < maxx
    /\ Width(xlim) = Width(drag_data.xlim)

\* C12: the view is never narrower or lower than a third of the Default
\* Viewport, and a zoom whose width or height would be is rejected: it
\* leaves the bounds as they are.
C12_ZoomInStopsAtThird ==
    /\ [](/\ 3 * Width(xlim) >= Width(DEFAULT_XLIM)
          /\ 3 * Width(ylim) >= Width(DEFAULT_YLIM))
    /\ [][(/\ WheelStep(4, 5)
           /\ \/ 3 * 4 * Width(xlim) < 5 * Width(DEFAULT_XLIM)
              \/ 3 * 4 * Width(ylim) < 5 * Width(DEFAULT_YLIM))
             => (xlim' = xlim /\ ylim' = ylim)
         ]_vars

\* more wheel events have run than zoom steps fit, and the view is at the
\* last step: one more zoom-in would be narrower than a third
C12_Witness ==
    /\ rounds = 0
    /\ view_events = 6
    /\ ~button1_down
    /\ drag_data.xlim = None
    /\ 3 * Width(xlim) >= Width(DEFAULT_XLIM)
    /\ 3 * 4 * Width(xlim) < 5 * Width(DEFAULT_XLIM)

\* the view after a zoom-out wheel event at cursor p
ZoomOutAt(v, p) == zoom(v[1], v[2], 5, 4, inv_transform(v[1], v[2], p[1], p[2]))

\* the views that runs of n zoom-out wheel events, at any cursors, lead to
\* from the views V
RECURSIVE ZoomOutRun(_, _)
ZoomOutRun(V, n) ==
    IF n = 0 THEN V
    ELSE ZoomOutRun({ZoomOutAt(v, p) : v \in V, p \in Cursors}, n - 1)

\* zoom-out events that lead from any view back to the full one: four from
\* the narrowest view, and one more for a product of line 378 that rounding
\* leaves just below the full width
ZoomOutSteps == 5

\* C13: a zoom whose width or height would meet or exceed the Default
\* Viewport's sets exactly the Default Viewport; every other zoom-out widens
\* the view by the factor and stays inside; from every view a run of
\* ZoomOutSteps zoom-out events, wherever the cursor is, ends at exactly the
\* Default Viewport, and a zoom-out there stays there.
C13_ZoomOutSnapsToDefault ==
    /\ [][\A f \in {<<4, 5>>, <<5, 4>>} :
             (/\ WheelStep(f[1], f[2])
              /\ \/ f[1] * Width(xlim) >= f[2] * Width(DEFAULT_XLIM)
                 \/ f[1] * Width(ylim) >= f[2] * Width(DEFAULT_YLIM))
                => AtDefault'
         ]_vars
    /\ [][WheelStep(5, 4) =>
             /\ Contained(xlim', ylim')
             /\ AtDefault => AtDefault'
             /\ AtDefault' \/ 4 * Width(xlim') = 5 * Width(xlim)
         ]_vars
    /\ [](ZoomOutRun({<<xlim, ylim>>}, ZoomOutSteps)
             = {<<DEFAULT_XLIM, DEFAULT_YLIM>>})

\* a drag was begun three zoom steps in, and with no submit_guess run since
\* the start the view is back at exactly the Default Viewport
C13_Witness ==
    /\ rounds = 0
    /\ pc = "mainloop"
    /\ drag_data.dragging
    /\ 125 * Width(drag_data.xlim) = 64 * Width(DEFAULT_XLIM)
    /\ AtDefault

\* a step of on_mouse_motion to cursor p
MotionStep(p) ==
    /\ button1_down' = button1_down
    /\ on_mouse_motion(p[1], p[2])

\* C14, as claimed: a drag motion that arrives while the view is the Default
\* Viewport leaves it the Default Viewport, whatever events came before.
\* (A step that a zoom-in wheel event makes as well is left aside, so that
\* only a motion can be what breaks the property.)
C14_PanAtDefaultIsNoOp ==
    [][(/\ AtDefault
        /\ \E p \in Cursors : MotionStep(p)
        /\ ~WheelStep(4, 5))
          => AtDefault'
      ]_vars

\* a step of one of the four pointer handlers
PointerStep == view_events' = view_events + 1

\* C15: a wheel, press, motion or release event changes nothing of the game:
\* pool, Guessed, current target, counter, the list, what the map highlights,
\* the feedback and the widgets stay as they are, in Active and in Terminal.
C15_ViewEventsLeaveGameState ==
    [][PointerStep =>
          /\ UNCHANGED <<pc, countries, remaining_countries, guessed_countries,
                         current_country, title>>
          /\ map' = map
          /\ UNCHANGED <<feedback, outcome, entry_state, button_state, rounds,
                         late_call, shown>>
          /\ Active' = Active
          /\ Terminal' = Terminal
      ]_vars

\* the game is over, and since then the view was zoomed and a drag begun
C15_Witness ==
    /\ Terminal
    /\ ~AtDefault
    /\ button1_down
    /\ drag_data.dragging

\* C16: while the pool is not empty the current target is set and is one of
\* the pool: after the start and after every submit_guess that leaves the
\* pool non-empty.
C16_TargetInPool ==
    Active =>
        /\ current_country # None
        /\ current_country \in remaining_countries
        /\ map.gold = current_country

\* the second round of a game of three names is in progress
C16_Witness ==
    /\ Active
    /\ rounds = 1
    /\ Cardinality(remaining_countries) = 2
    /\ current_country \in remaining_countries

\* an interval moved just enough to lie inside the default one
ShiftInside(lim, default) ==
    IF lim[1] < default[1] THEN <<default[1], default[1] + Width(lim)>>
    ELSE IF lim[2] > default[2] THEN <<default[2] - Width(lim), default[2]>>
    ELSE lim

\* the view C17 expects of a motion to cursor p: the bounds the drag began
\* with, moved by the displacement of the pointer since the press, taken in
\* data space under the current view, then shifted inside
PanExpected(p) ==
    LET p0 == inv_transform(xlim, ylim, drag_data.x, drag_data.y)
        p1 == inv_transform(xlim, ylim, p[1], p[2])
        dx == p0[1] - p1[1]
        dy == p1[2] - p0[2]
    IN  <<ShiftInside(<<drag_data.xlim[1] + dx, drag_data.xlim[2] + dx>>,
                      DEFAULT_XLIM),
          ShiftInside(<<drag_data.ylim[1] + dy, drag_data.ylim[2] + dy>>,
                      DEFAULT_YLIM)>>

C18_AspectKept ==
    Width(ylim) * Width(DEFAULT_XLIM) = Width(xlim) * Width(DEFAULT_YLIM)

\* two zoom steps in, a drag has moved the view up or down
C18_Witness ==
    /\ drag_data.dragging
    /\ 25 * Width(xlim) = 16 * Width(DEFAULT_XLIM)
    /\ Width(drag_data.xlim) = Width(xlim)
    /\ ylim # drag_data.ylim

\* a step of submit_guess: the pointer handlers count their events, so a
\* step of the main loop that leaves the count is made by submit_guess
SubmitStep ==
    /\ pc = "mainloop"
    /\ view_events' = view_events

\* C19: every submit_guess, whatever its outcome and also the one that ends
\* the game, leaves the view at the Default Viewport, whatever zoom and pan
\* events came before it.
C19_SubmitResetsView == [][SubmitStep => AtDefault']_vars

\* the view was zoomed and a drag begun, and with no pointer event after the
\* press the view is the Default Viewport again: a submit_guess has reset it
C19_Witness ==
    /\ drag_data.dragging
    /\ button1_down
    /\ view_events = 2
    /\ rounds = 1
    /\ AtDefault

\* C20: from the start on, the counter in the title shows |Guessed| and the
\* length of the country list, which never changes, and the first is at most
\* the second; this holds after every submit_guess, the skip that returns
\* at line 133 included.
C20_CounterNeverStale ==
    /\ [](pc = "mainloop" =>
             /\ title = <<Cardinality(guessed_countries), Len(countries)>>
             /\ title[1] <= title[2])
    /\ [][pc = "mainloop" => (countries' = countries /\ title'[2] = title[2])]_vars

\* a skip followed a correct guess, and the game goes on
C20_Witness ==
    /\ Active
    /\ outcome = "skipped"
    /\ feedback = "skipped"
    /\ title = <<1, 3>>

====
